---- MODULE Spec2Model ----
(***************************************************************************)
(* Model of the ADC acquisition code of ADC_6_channels.                    *)
(*                                                                         *)
(* Asynchronous (DMA, scan mode) engine: Core/Src/adc_dma_conversion.c.    *)
(* The application calls (start, reads, reset, stop, statistics) run in    *)
(* the foreground; the two HAL callbacks run in interrupt context.  The    *)
(* ADC/DMA hardware behind the HAL is the environment: it answers the HAL  *)
(* calls with a status, writes the DMA buffer word by word while a         *)
(* conversion is in flight and delivers one completion or error            *)
(* notification for each scatter-start it accepted.                        *)
(*                                                                         *)
(* In Spec every application call and every callback is one step: the      *)
(* target is a single core, a callback runs to completion, and the calls   *)
(* are observed from the foreground before and after they run.             *)
(***************************************************************************)
EXTENDS Integers, Sequences, FiniteSets, TLC

(***************************************************************************)
(* Program constants.                                                      *)
(***************************************************************************)
ADC_DMA_CHANNEL_COUNT ==
    6

ADC_DMA_ERROR_INVALID_CHANNEL ==
    65535

ADC_DMA_ERROR_NOT_COMPLETE ==
    65534

ADC_DMA_ERROR_DMA_FAILED ==
    65533

UINT8_MAX ==
    255

ADC_CONVERSIONS_CHANNEL_COUNT ==
    6

\* ADC_ErrorTypeDef: the markers of the blocking engine.
ADC_ERROR_INVALID_CHANNEL ==
    65535

ADC_ERROR_CONFIG ==
    65534

ADC_ERROR_START ==
    65533

ADC_ERROR_TIMEOUT ==
    65532

\* last_failed_channel when no channel has failed (0xFF).
NO_FAILED_CHANNEL ==
    255

\* The largest sample of the 12-bit converter.
ADC_MAX_VALUE ==
    4095

ADC_DMA_STATE_IDLE ==
    "IDLE"

ADC_DMA_STATE_CONVERTING ==
    "CONVERTING"

ADC_DMA_STATE_COMPLETE ==
    "COMPLETE"

ADC_DMA_STATE_ERROR ==
    "ERROR"

ADC_DMA_StateTypeDef ==
    {ADC_DMA_STATE_IDLE, ADC_DMA_STATE_CONVERTING,
     ADC_DMA_STATE_COMPLETE, ADC_DMA_STATE_ERROR}

HAL_OK ==
    "HAL_OK"

HAL_ERROR ==
    "HAL_ERROR"

HAL_BUSY ==
    "HAL_BUSY"

HAL_TIMEOUT ==
    "HAL_TIMEOUT"

\* The statuses a HAL call can answer with, and the failing ones.
HAL_StatusTypeDef ==
    {HAL_OK, HAL_ERROR, HAL_BUSY, HAL_TIMEOUT}

HalFailure ==
    HAL_StatusTypeDef \ {HAL_OK}

\* No status: the operation returns void or a value.
NO_STATUS ==
    "NONE"

\* The converter instances a callback can be invoked for.
ADC1 ==
    "ADC1"

Instances ==
    {ADC1, "ADC2"}

(***************************************************************************)
(* Bounds of the model.                                                    *)
(***************************************************************************)
\* The statistics counters are explored up to this value.
MaxCount ==
    2

\* Scatter-starts the hardware has accepted and not yet notified or aborted.
MaxInFlight ==
    2

\* Distinct sample vectors the hardware can produce for one scan.
NumScans ==
    2

\* Failures the HAL answers to the blocking engine in one behaviour.
MaxFaults ==
    1

Channels ==
    0 .. (ADC_DMA_CHANNEL_COUNT - 1)

\* Channel ids the application passes to analogSensor_getChannelValue.
ChannelIds ==
    {0, ADC_DMA_CHANNEL_COUNT - 1, ADC_DMA_CHANNEL_COUNT, UINT8_MAX}

ScanIds ==
    1 .. NumScans

\* The 12-bit sample the hardware produces for channel i in a scan of kind s.
ScanValue(s, i) ==
    (s * 1000 + i) % 4096

ScanVector(s) ==
    [i \in Channels |-> ScanValue(s, i)]

ZeroBuffer ==
    [i \in Channels |-> 0]

\* The initialiser of adc_errors.
NoErrors ==
    [total_errors |-> 0, last_error_status |-> HAL_OK,
     last_failed_channel |-> NO_FAILED_CHANNEL]

\* The counts the application passes to analogSensor_operation_all_channels.
ChannelCounts ==
    {0, 2, ADC_CONVERSIONS_CHANNEL_COUNT, UINT8_MAX}

VARIABLES
    adc_dma_state,          \* static volatile ADC_DMA_StateTypeDef
    dma_adc_buffer,         \* static volatile uint32_t [6], written by the DMA
    dma_conversion_count,   \* static volatile uint32_t
    dma_error_count,        \* static volatile uint32_t
    hw_inflight,            \* accepted scatter-starts not yet notified/aborted
    hw_pos,                 \* words the DMA has written in the current scan
    dest,                   \* the caller's array given to getAllChannelValues
    op,                     \* the operation that acted last
    arg,                    \* its argument (channel id), 0 if none
    ret_status,             \* the HAL_StatusTypeDef it returned, or NO_STATUS
    ret_value,              \* the uint32_t it returned, 0 if none
    hw_call,                \* the hardware call it issued, "NONE" if none
    hw_status,              \* the status the hardware answered, or NO_STATUS
    since_accept,           \* history: a start was accepted and no notification,
                            \*   reset or stop has happened since
    await_notify,           \* history: a start was accepted and no notification
                            \*   has been delivered since
    cplt_buffer,            \* history: the buffer at the last completion
    raw_LISXXXALH,          \* extern volatile uint32_t [6], the blocking slots
    adc_errors,             \* static ADC_ErrorInfo_t of the blocking engine
    op_calls,               \* history: the analogSensor_operation calls of the
                            \*   sweep in progress, with status and value
    entry_errors,           \* history: adc_errors when the sweep was entered
    hw_faults,              \* failures the HAL has answered to the blocking
                            \*   engine so far
    hw_level,               \* the scan the inputs of the converter present to
                            \*   the blocking engine
    hal_calls,              \* history: the HAL calls of the last
                            \*   analogSensor_operation call, in order
    pc,                     \* where the foreground is: "main" between calls
    fg_i,                   \* the loop index i of the call in progress
    fg_n,                   \* total_channels of the sweep in progress
    fg_status,              \* the local status of the call in progress
    fg_count                \* the counter value loaded by the increment in
                            \*   progress

vars ==
    <<adc_dma_state, dma_adc_buffer, dma_conversion_count, dma_error_count,
      hw_inflight, hw_pos, dest, op, arg, ret_status, ret_value,
      hw_call, hw_status, since_accept, await_notify, cplt_buffer,
      raw_LISXXXALH, adc_errors, op_calls, entry_errors,
      hw_faults, hw_level, hal_calls, pc, fg_i, fg_n, fg_status,
      fg_count>>

history ==
    <<since_accept, await_notify, cplt_buffer>>

engine ==
    <<adc_dma_state, dma_adc_buffer, dma_conversion_count, dma_error_count>>

hardware ==
    <<hw_inflight, hw_pos>>

\* The blocking engine's data and its history.
blocking ==
    <<raw_LISXXXALH, adc_errors, op_calls, entry_errors,
      hw_faults, hw_level, hal_calls>>

\* The position and the locals of the foreground call in progress.
foreground ==
    <<pc, fg_i, fg_n, fg_status, fg_count>>

\* What the atomic calls and the callbacks of the asynchronous engine leave.
elsewhere ==
    <<blocking, foreground>>

TypeOK ==
    /\ adc_dma_state \in ADC_DMA_StateTypeDef
    /\ dma_adc_buffer \in [Channels -> 0 .. 4095]
    /\ dma_conversion_count \in 0 .. MaxCount
    /\ dma_error_count \in 0 .. MaxCount
    /\ hw_inflight \in 0 .. MaxInFlight
    /\ hw_pos \in 0 .. ADC_DMA_CHANNEL_COUNT
    /\ dest \in [Channels -> 0 .. 4095]
    /\ ret_status \in HAL_StatusTypeDef \cup {NO_STATUS}
    /\ ret_value \in Nat
    /\ hw_status \in HAL_StatusTypeDef \cup {NO_STATUS}
    /\ since_accept \in BOOLEAN
    /\ await_notify \in BOOLEAN
    /\ cplt_buffer \in [Channels -> 0 .. 4095]
    /\ raw_LISXXXALH \in [Channels -> Nat]
    /\ adc_errors.total_errors \in 0 .. MaxCount
    /\ adc_errors.last_error_status \in HAL_StatusTypeDef
    /\ adc_errors.last_failed_channel \in 0 .. UINT8_MAX
    /\ hw_faults \in 0 .. MaxFaults
    /\ hw_level \in ScanIds
    /\ pc \in {"main", "all_channels", "copy", "stop_store", "stop_return",
              "start_hal", "start_test", "start_count", "wait"}
    /\ fg_i \in 0 .. ADC_DMA_CHANNEL_COUNT
    /\ fg_n \in 0 .. ADC_CONVERSIONS_CHANNEL_COUNT
    /\ fg_status \in HAL_StatusTypeDef \cup {NO_STATUS}
    /\ fg_count \in 0 .. MaxCount

\* The program after start-up.
InitProgram ==
    /\ adc_dma_state = ADC_DMA_STATE_IDLE
    /\ dma_adc_buffer = ZeroBuffer
    /\ dma_conversion_count = 0
    /\ dma_error_count = 0
    /\ hw_inflight = 0
    /\ hw_pos = 0
    /\ dest = ZeroBuffer
    /\ op = "init"
    /\ arg = 0
    /\ ret_status = NO_STATUS
    /\ ret_value = 0
    /\ hw_call = "NONE"
    /\ hw_status = NO_STATUS
    /\ since_accept = FALSE
    /\ await_notify = FALSE
    /\ cplt_buffer = ZeroBuffer
    /\ raw_LISXXXALH = ZeroBuffer
    /\ adc_errors = NoErrors
    /\ op_calls = <<>>
    /\ entry_errors = NoErrors
    /\ hw_faults = 0
    /\ hal_calls = <<>>
    /\ pc = "main"
    /\ fg_i = 0
    /\ fg_n = 0
    /\ fg_status = NO_STATUS
    /\ fg_count = 0

Init ==
    /\ InitProgram
    /\ hw_level = 1

\* The blocking engine is run with each of the scans on its inputs.
InitBlocking ==
    /\ InitProgram
    /\ hw_level \in ScanIds

\* What an operation reports: its name, argument and results, and the
\* hardware call it issued with the status the hardware answered.
Report(o, a, s, v, h, hs) ==
    /\ op' = o
    /\ arg' = a
    /\ ret_status' = s
    /\ ret_value' = v
    /\ hw_call' = h
    /\ hw_status' = hs

\* An operation that issues no hardware call.
ReportSoft(o, a, s, v) ==
    Report(o, a, s, v, "NONE", NO_STATUS)

\* counter++ on a uint32_t; the wrap at 2^32 lies beyond MaxCount.
Inc32(x) ==
    x + 1

(***************************************************************************)
(* analogSensor_startConversion_DMA                                        *)
(***************************************************************************)
\* Mutant: the guard of line 154 is missing.
StartRefused_Never(state) ==
    FALSE

\* Mutant: a start is refused after a failure as well.
StartRefused_WhenError(state) ==
    state \in {ADC_DMA_STATE_CONVERTING, ADC_DMA_STATE_ERROR}

\* Mutant: the guard of line 154 tests for the wrong state.
StartRefused_WhenComplete(state) ==
    state = ADC_DMA_STATE_COMPLETE

\* The guard of line 154: a start is refused while a conversion is running.
StartRefused(state) ==
    state = ADC_DMA_STATE_CONVERTING

\* Mutant: a failed start leaves the state CONVERTING (line 170 missing)
\* and returns HAL_ERROR whatever the hardware answered.
StartOutcome_FailKeepsConverting(hal, conv, err) ==
    IF hal # HAL_OK
    THEN [state |-> ADC_DMA_STATE_CONVERTING, conv |-> conv, err |-> Inc32(err),
          ret |-> HAL_ERROR]
    ELSE [state |-> ADC_DMA_STATE_CONVERTING, conv |-> Inc32(conv), err |-> err,
          ret |-> HAL_OK]

\* Mutant: the conversion counter is incremented before the status is tested.
StartOutcome_CountsEarly(hal, conv, err) ==
    IF hal # HAL_OK
    THEN [state |-> ADC_DMA_STATE_ERROR, conv |-> Inc32(conv),
          err |-> Inc32(err), ret |-> hal]
    ELSE [state |-> ADC_DMA_STATE_CONVERTING, conv |-> Inc32(conv),
          err |-> Inc32(err), ret |-> HAL_OK]

\* The state and counters after the hardware answered the scatter-start
\* with status hal (the state was set to CONVERTING before the call).
StartOutcome(hal, conv, err) ==
    IF hal # HAL_OK
    THEN [state |-> ADC_DMA_STATE_ERROR, conv |-> conv, err |-> Inc32(err),
          ret |-> hal]
    ELSE [state |-> ADC_DMA_STATE_CONVERTING, conv |-> Inc32(conv), err |-> err,
          ret |-> HAL_OK]

analogSensor_startConversion_DMA ==
    IF StartRefused(adc_dma_state)
    THEN /\ ReportSoft("startConversion_DMA", 0, HAL_BUSY, 0)
         /\ UNCHANGED <<elsewhere, engine, hardware, dest, history>>
    ELSE \E hal \in HAL_StatusTypeDef :
           LET out == StartOutcome(hal, dma_conversion_count, dma_error_count)
           IN  /\ hal = HAL_OK => hw_inflight < MaxInFlight
               /\ out.conv <= MaxCount
               /\ out.err <= MaxCount
               /\ adc_dma_state' = out.state
               /\ dma_conversion_count' = out.conv
               /\ dma_error_count' = out.err
               /\ hw_inflight' = IF hal = HAL_OK THEN hw_inflight + 1
                                                 ELSE hw_inflight
               /\ since_accept' = IF hal = HAL_OK THEN TRUE ELSE since_accept
               /\ await_notify' = IF hal = HAL_OK THEN TRUE ELSE await_notify
               /\ Report("startConversion_DMA", 0, out.ret, 0,
                         "HAL_ADC_Start_DMA", hal)
               /\ UNCHANGED <<elsewhere, dma_adc_buffer, hw_pos, dest, cplt_buffer>>

(***************************************************************************)
(* Queries                                                                 *)
(***************************************************************************)
analogSensor_isConversionComplete ==
    /\ ReportSoft("isConversionComplete", 0, NO_STATUS,
                  IF adc_dma_state = ADC_DMA_STATE_COMPLETE THEN 1 ELSE 0)
    /\ UNCHANGED <<elsewhere, engine, hardware, dest, history>>

\* Mutant: every state but COMPLETE is reported as a DMA failure.
ChannelValue_AllFailed(channel_id, state, buffer) ==
    IF channel_id >= ADC_DMA_CHANNEL_COUNT
    THEN ADC_DMA_ERROR_INVALID_CHANNEL
    ELSE IF state # ADC_DMA_STATE_COMPLETE
         THEN ADC_DMA_ERROR_DMA_FAILED
         ELSE buffer[channel_id]

\* The value analogSensor_getChannelValue returns.
ChannelValue(channel_id, state, buffer) ==
    IF channel_id >= ADC_DMA_CHANNEL_COUNT
    THEN ADC_DMA_ERROR_INVALID_CHANNEL
    ELSE IF state # ADC_DMA_STATE_COMPLETE
         THEN IF state = ADC_DMA_STATE_ERROR
              THEN ADC_DMA_ERROR_DMA_FAILED
              ELSE ADC_DMA_ERROR_NOT_COMPLETE
         ELSE buffer[channel_id]

analogSensor_getChannelValue ==
    \E channel_id \in ChannelIds :
      /\ ReportSoft("getChannelValue", channel_id, NO_STATUS,
                    ChannelValue(channel_id, adc_dma_state, dma_adc_buffer))
      /\ UNCHANGED <<elsewhere, engine, hardware, dest, history>>

\* Mutant: the copy is refused only while a conversion is running.
AllValuesStatus_OnlyConverting(isNull, state) ==
    IF isNull THEN HAL_ERROR
    ELSE IF state = ADC_DMA_STATE_CONVERTING THEN HAL_BUSY
    ELSE HAL_OK

\* The status analogSensor_getAllChannelValues returns; isNull: buffer == NULL.
AllValuesStatus(isNull, state) ==
    IF isNull THEN HAL_ERROR
    ELSE IF state # ADC_DMA_STATE_COMPLETE THEN HAL_BUSY
    ELSE HAL_OK

\* Mutant: the copy loop stops one element early.
CopyAll_OneShort(buffer, old) ==
    [i \in Channels |->
       IF i < ADC_DMA_CHANNEL_COUNT - 1 THEN buffer[i] ELSE old[i]]

\* The caller's array after the copy loop of lines 232-234.
CopyAll(buffer, old) ==
    [i \in Channels |-> IF i < ADC_DMA_CHANNEL_COUNT THEN buffer[i] ELSE old[i]]

analogSensor_getAllChannelValues ==
    \E isNull \in BOOLEAN :
      LET status == AllValuesStatus(isNull, adc_dma_state)
      IN  /\ dest' = IF status = HAL_OK THEN CopyAll(dma_adc_buffer, dest)
                                        ELSE dest
          /\ ReportSoft("getAllChannelValues", IF isNull THEN 0 ELSE 1, status, 0)
          /\ UNCHANGED <<elsewhere, engine, hardware, history>>

(***************************************************************************)
(* Reset, stop, statistics                                                 *)
(***************************************************************************)
\* Mutant: the reset acts only on a finished conversion.
ResetState_OnlyWhenDone(state) ==
    IF state \in {ADC_DMA_STATE_COMPLETE, ADC_DMA_STATE_ERROR}
    THEN ADC_DMA_STATE_IDLE
    ELSE state

\* The state analogSensor_resetDMAState leaves.
ResetState(state) ==
    ADC_DMA_STATE_IDLE

analogSensor_resetDMAState ==
    /\ adc_dma_state' = ResetState(adc_dma_state)
    /\ since_accept' = FALSE
    /\ ReportSoft("resetDMAState", 0, NO_STATUS, 0)
    /\ UNCHANGED <<elsewhere, dma_adc_buffer, dma_conversion_count, dma_error_count,
                   hardware, dest, await_notify, cplt_buffer>>

\* HAL_ADC_Stop_DMA answering with status hal: an abort that succeeds ends
\* every conversion in flight, one that fails leaves the hardware running.
HwAbort(hal) ==
    IF hal = HAL_OK
    THEN /\ hw_inflight' = 0
         /\ hw_pos' = 0
    ELSE UNCHANGED hardware

\* Mutant: a stop leaves a conversion that is running alone.
StopState_KeepsConverting(hal, state) ==
    IF state = ADC_DMA_STATE_CONVERTING THEN state ELSE ADC_DMA_STATE_IDLE

\* Mutant: the state is reset only when the abort succeeded.
StopState_OnlyWhenAborted(hal, state) ==
    IF hal = HAL_OK THEN ADC_DMA_STATE_IDLE ELSE state

\* The state analogSensor_stopConversion_DMA stores after the abort answered
\* with status hal.
StopState(hal, state) ==
    ADC_DMA_STATE_IDLE

\* Mutant: a failed abort is counted as an error.
StopErrorCount_CountsFailure(hal, count) ==
    IF hal = HAL_OK THEN count ELSE Inc32(count)

\* dma_error_count after analogSensor_stopConversion_DMA: the abort's
\* status is returned, not counted.
StopErrorCount(hal, count) ==
    count

analogSensor_stopConversion_DMA ==
    \E hal \in HAL_StatusTypeDef :
      /\ HwAbort(hal)
      /\ adc_dma_state' = StopState(hal, adc_dma_state)
      /\ dma_error_count' = StopErrorCount(hal, dma_error_count)
      /\ since_accept' = FALSE
      /\ Report("stopConversion_DMA", 0, hal, 0, "HAL_ADC_Stop_DMA", hal)
      /\ UNCHANGED <<elsewhere, dma_adc_buffer, dma_conversion_count,
                     dest, await_notify, cplt_buffer>>

\* Both output pointers given: total_conversions, then errors, are reported
\* through ret_value and arg.
analogSensor_getDMAStats ==
    /\ ReportSoft("getDMAStats", dma_error_count, NO_STATUS,
                  dma_conversion_count)
    /\ UNCHANGED <<elsewhere, engine, hardware, dest, history>>

analogSensor_resetDMAStats ==
    /\ dma_conversion_count' = 0
    /\ dma_error_count' = 0
    /\ ReportSoft("resetDMAStats", 0, NO_STATUS, 0)
    /\ UNCHANGED <<elsewhere, adc_dma_state, dma_adc_buffer, hardware, dest, history>>

(***************************************************************************)
(* Hardware and interrupt context                                          *)
(***************************************************************************)
\* The DMA writes the words of the scan in flight into the buffer the start
\* call handed to it (Length = ADC_DMA_CHANNEL_COUNT words).  The words of one
\* scan are written in one step: no call of this specification stops halfway.
DMA_Transfer ==
    /\ hw_inflight > 0
    /\ hw_pos < ADC_DMA_CHANNEL_COUNT
    /\ \E s \in ScanIds :
         dma_adc_buffer' = ScanVector(s)
    /\ hw_pos' = ADC_DMA_CHANNEL_COUNT
    /\ ReportSoft("DMA_Transfer", 0, NO_STATUS, 0)
    /\ UNCHANGED <<elsewhere, adc_dma_state, dma_conversion_count, dma_error_count,
                   hw_inflight, dest, history>>

\* The argument recorded for a callback: 1 when the handle it is given is
\* that of ADC1, 0 for the handle of another converter.
HandleArg(instance) ==
    IF instance = ADC1 THEN 1 ELSE 0

\* Mutant: the callbacks act for the handle of any converter.
IsOurs_Always(instance) ==
    TRUE

\* Whether a callback acts for the converter of the handle it is given.
IsOurs(instance) ==
    instance = ADC1

\* Mutant: the completion callback acts only on a conversion it believes
\* to be running.
CompleteState_OnlyFromConverting(state) ==
    IF state = ADC_DMA_STATE_CONVERTING THEN ADC_DMA_STATE_COMPLETE ELSE state

\* Mutant: the completion callback resets the state machine.
CompleteState_ResetsToIdle(state) ==
    ADC_DMA_STATE_IDLE

\* Mutant: the completion callback does not overwrite an error.
CompleteState_KeepsError(state) ==
    IF state = ADC_DMA_STATE_ERROR THEN state ELSE ADC_DMA_STATE_COMPLETE

\* Mutant: the completion callback leaves the state as it is.
CompleteState_Unchanged(state) ==
    state

\* The state the completion callback leaves.
CompleteState(state) ==
    ADC_DMA_STATE_COMPLETE

\* The hardware raises the completion interrupt of ADC1 once all words of
\* the scan in flight are in the buffer; callbacks of another converter are
\* not tied to this engine's conversions.
HAL_ADC_ConvCpltCallback ==
    \E instance \in Instances :
      IF IsOurs(instance)
      THEN /\ hw_inflight > 0
           /\ hw_pos = ADC_DMA_CHANNEL_COUNT
           /\ adc_dma_state' = CompleteState(adc_dma_state)
           /\ hw_inflight' = hw_inflight - 1
           /\ hw_pos' = 0
           /\ since_accept' = FALSE
           /\ await_notify' = FALSE
           /\ cplt_buffer' = dma_adc_buffer
           /\ ReportSoft("ConvCpltCallback", HandleArg(instance), NO_STATUS, 0)
           /\ UNCHANGED <<elsewhere, dma_adc_buffer, dma_conversion_count, dma_error_count,
                          dest>>
      ELSE /\ ReportSoft("ConvCpltCallback", HandleArg(instance), NO_STATUS, 0)
           /\ UNCHANGED <<elsewhere, engine, hardware, dest, history>>

\* The hardware raises the error interrupt of ADC1 at any point of a scan in
\* flight; the callback aborts the hardware and ignores the abort's status.
HAL_ADC_ErrorCallback ==
    \E instance \in Instances :
      IF IsOurs(instance)
      THEN /\ hw_inflight > 0
           /\ dma_error_count < MaxCount
           /\ adc_dma_state' = ADC_DMA_STATE_ERROR
           /\ dma_error_count' = Inc32(dma_error_count)
           /\ \E hal \in HAL_StatusTypeDef :
                /\ IF hal = HAL_OK
                   THEN HwAbort(hal)
                   ELSE /\ hw_inflight' = hw_inflight - 1
                        /\ hw_pos' = 0
                /\ Report("ErrorCallback", HandleArg(instance), NO_STATUS, 0,
                          "HAL_ADC_Stop_DMA", hal)
           /\ since_accept' = FALSE
           /\ await_notify' = FALSE
           /\ UNCHANGED <<elsewhere, dma_adc_buffer, dma_conversion_count, dest,
                          cplt_buffer>>
      ELSE /\ ReportSoft("ErrorCallback", HandleArg(instance), NO_STATUS, 0)
           /\ UNCHANGED <<elsewhere, engine, hardware, dest, history>>

Next ==
    \/ analogSensor_startConversion_DMA
    \/ analogSensor_isConversionComplete
    \/ analogSensor_getChannelValue
    \/ analogSensor_getAllChannelValues
    \/ analogSensor_resetDMAState
    \/ analogSensor_stopConversion_DMA
    \/ analogSensor_getDMAStats
    \/ analogSensor_resetDMAStats
    \/ DMA_Transfer
    \/ HAL_ADC_ConvCpltCallback
    \/ HAL_ADC_ErrorCallback

Spec ==
    Init /\ [][Next]_vars

\* The hardware does its part: the DMA writes the scan in flight and a
\* notification of ADC1 is delivered for it.  The application is free.
SpecHardwareFair ==
    /\ Spec
    /\ WF_vars(DMA_Transfer)
    /\ WF_vars((HAL_ADC_ConvCpltCallback \/ HAL_ADC_ErrorCallback) /\ arg' = 1)

(***************************************************************************)
(* The foreground calls step by step, interrupts between the steps.        *)
(*                                                                         *)
(* A foreground call is a sequence of steps (pc tells where it is); the    *)
(* DMA and the handlers of the completion and error interrupts run between *)
(* any two of them (SpecNotifications).  SpecInterrupts adds usage pattern *)
(* 3, where the timer interrupt issues the start.  A handler runs to       *)
(* completion; nested interrupts are not modelled.                         *)
(***************************************************************************)
\* In the timer interrupt (htim->Instance == TIM2): the start call.
TIM_PeriodElapsedCallback ==
    analogSensor_startConversion_DMA

\* A call of the foreground that is one load or one store.
InMain(call) ==
    pc = "main" /\ call

\* analogSensor_stopConversion_DMA, line 250: the abort is requested.
stopConversion_DMA_abort ==
    /\ pc = "main"
    /\ \E hal \in HAL_StatusTypeDef :
         /\ HwAbort(hal)
         /\ fg_status' = hal
         /\ Report("stop:HAL_ADC_Stop_DMA", 0, NO_STATUS, 0,
                   "HAL_ADC_Stop_DMA", hal)
    /\ pc' = "stop_store"
    /\ UNCHANGED <<engine, dest, history, blocking, fg_i, fg_n,
                   fg_count>>

\* Line 254: the state is stored.
stopConversion_DMA_store ==
    /\ pc = "stop_store"
    /\ adc_dma_state' = StopState(fg_status, adc_dma_state)
    /\ since_accept' = FALSE
    /\ pc' = "stop_return"
    /\ ReportSoft("stop:store", 0, NO_STATUS, 0)
    /\ UNCHANGED <<dma_adc_buffer, dma_conversion_count, dma_error_count,
                   hardware, dest, await_notify, cplt_buffer, blocking,
                   fg_i, fg_n, fg_status,
                   fg_count>>

\* Line 256: the call returns the abort's status.
stopConversion_DMA_return ==
    /\ pc = "stop_return"
    /\ pc' = "main"
    /\ fg_status' = NO_STATUS
    /\ ReportSoft("stopConversion_DMA", 0, fg_status, 0)
    /\ UNCHANGED <<engine, hardware, dest, history, blocking, fg_i, fg_n,
                   fg_count>>

\* analogSensor_getAllChannelValues, lines 220-227: the two tests; the call
\* returns at once unless both pass.
getAllChannelValues_check ==
    /\ pc = "main"
    /\ \E isNull \in BOOLEAN :
         LET status == AllValuesStatus(isNull, adc_dma_state)
         IN  IF status = HAL_OK
             THEN /\ pc' = "copy"
                  /\ ReportSoft("getAll:check", 1, NO_STATUS, 0)
             ELSE /\ pc' = "main"
                  /\ ReportSoft("getAllChannelValues", IF isNull THEN 0 ELSE 1,
                                status, 0)
    /\ fg_i' = 0
    /\ UNCHANGED <<engine, hardware, dest, history, blocking, fg_n, fg_status,
                   fg_count>>

\* The caller's array after iteration i of the copy loop.
CopyWord(buffer, old, i) ==
    [old EXCEPT ![i] = buffer[i]]

\* Lines 232-234: one iteration of the copy loop.
getAllChannelValues_copy ==
    /\ pc = "copy"
    /\ fg_i < ADC_DMA_CHANNEL_COUNT
    /\ dest' = CopyWord(dma_adc_buffer, dest, fg_i)
    /\ fg_i' = fg_i + 1
    /\ ReportSoft("getAll:copy", fg_i, NO_STATUS, 0)
    /\ UNCHANGED <<engine, hardware, history, blocking, pc, fg_n, fg_status,
                   fg_count>>

\* Line 236: the loop is over, the call returns HAL_OK.
getAllChannelValues_return ==
    /\ pc = "copy"
    /\ fg_i >= ADC_DMA_CHANNEL_COUNT
    /\ pc' = "main"
    /\ fg_i' = 0
    /\ ReportSoft("getAllChannelValues", 1, HAL_OK, 0)
    /\ UNCHANGED <<engine, hardware, dest, history, blocking, fg_n, fg_status,
                   fg_count>>

NextNotifications ==
    \/ DMA_Transfer
    \/ HAL_ADC_ConvCpltCallback
    \/ HAL_ADC_ErrorCallback
    \/ InMain(analogSensor_startConversion_DMA)
    \/ InMain(analogSensor_isConversionComplete)
    \/ InMain(analogSensor_resetDMAState)
    \/ getAllChannelValues_check
    \/ getAllChannelValues_copy
    \/ getAllChannelValues_return
    \/ stopConversion_DMA_abort
    \/ stopConversion_DMA_store
    \/ stopConversion_DMA_return

SpecNotifications ==
    Init /\ [][NextNotifications]_vars

NextInterrupts ==
    \/ NextNotifications
    \/ TIM_PeriodElapsedCallback

SpecInterrupts ==
    Init /\ [][NextInterrupts]_vars

(***************************************************************************)
(* analogSensor_startConversion_DMA step by step.                          *)
(*                                                                         *)
(* The start call is three steps: the test and the store of CONVERTING     *)
(* (lines 154-159), the HAL call (line 164), and the test of its status    *)
(* with the counter update and the return (lines 168-177).  The DMA and    *)
(* the two callbacks run between the steps.  An accepted start is followed *)
(* either by other calls or by the documented wait loop                    *)
(*   while (!analogSensor_isConversionComplete()) { }                      *)
(* of usage pattern 1.                                                     *)
(***************************************************************************)
\* Lines 154-159: a refused start returns HAL_BUSY, otherwise the state is
\* set to CONVERTING.
startConversion_DMA_enter ==
    /\ pc = "main"
    /\ IF StartRefused(adc_dma_state)
       THEN /\ ReportSoft("startConversion_DMA", 0, HAL_BUSY, 0)
            /\ UNCHANGED <<adc_dma_state, pc>>
       ELSE /\ adc_dma_state' = ADC_DMA_STATE_CONVERTING
            /\ pc' = "start_hal"
            /\ ReportSoft("start:store", 0, NO_STATUS, 0)
    /\ UNCHANGED <<dma_adc_buffer, dma_conversion_count, dma_error_count,
                   hardware, dest, history, blocking, fg_i, fg_n, fg_status,
                   fg_count>>

\* Line 164: HAL_ADC_Start_DMA is called and answers hal; an accepted
\* scatter-start is in flight from here on.
startConversion_DMA_hal ==
    /\ pc = "start_hal"
    /\ \E hal \in HAL_StatusTypeDef :
         /\ hal = HAL_OK => hw_inflight < MaxInFlight
         /\ hw_inflight' = IF hal = HAL_OK THEN hw_inflight + 1
                                           ELSE hw_inflight
         /\ since_accept' = IF hal = HAL_OK THEN TRUE ELSE since_accept
         /\ await_notify' = IF hal = HAL_OK THEN TRUE ELSE await_notify
         /\ fg_status' = hal
         /\ Report("start:HAL_ADC_Start_DMA", 0, NO_STATUS, 0,
                   "HAL_ADC_Start_DMA", hal)
    /\ pc' = "start_test"
    /\ UNCHANGED <<engine, hw_pos, dest, cplt_buffer, blocking, fg_i, fg_n,
                   fg_count>>

\* Mutant: the state is stored again after the HAL call succeeded.
StartStateAfter_StoresConverting(hal, state) ==
    IF hal # HAL_OK THEN ADC_DMA_STATE_ERROR ELSE ADC_DMA_STATE_CONVERTING

\* Lines 168-177: the state after the status test; it is written only when
\* the HAL call failed.
StartStateAfter(hal, state) ==
    IF hal # HAL_OK THEN ADC_DMA_STATE_ERROR ELSE state

\* Where the application goes after a start that returned status: on with
\* other calls, or into the wait loop of usage pattern 1.
AfterStart(status) ==
    IF status = HAL_OK THEN {"main", "wait"} ELSE {"main"}

\* Lines 168-177: the status is tested, a counter is incremented, the call
\* returns.
startConversion_DMA_finish ==
    /\ pc = "start_test"
    /\ LET out == StartOutcome(fg_status, dma_conversion_count,
                               dma_error_count)
       IN  /\ out.conv <= MaxCount
           /\ out.err <= MaxCount
           /\ adc_dma_state' = StartStateAfter(fg_status, adc_dma_state)
           /\ dma_conversion_count' = out.conv
           /\ dma_error_count' = out.err
           /\ ReportSoft("startConversion_DMA", 0, out.ret, 0)
           /\ pc' \in AfterStart(out.ret)
    /\ fg_status' = NO_STATUS
    /\ UNCHANGED <<dma_adc_buffer, hardware, dest, history, blocking,
                   fg_i, fg_n,
                   fg_count>>

\* One turn of the wait loop: the loop ends when the call returns 1.
waitLoop_isConversionComplete ==
    /\ pc = "wait"
    /\ ReportSoft("isConversionComplete", 0, NO_STATUS,
                  IF adc_dma_state = ADC_DMA_STATE_COMPLETE THEN 1 ELSE 0)
    /\ pc' = IF adc_dma_state = ADC_DMA_STATE_COMPLETE THEN "main" ELSE "wait"
    /\ UNCHANGED <<engine, hardware, dest, history, blocking, fg_i, fg_n,
                   fg_status, fg_count>>

NextStartSteps ==
    \/ DMA_Transfer
    \/ HAL_ADC_ConvCpltCallback
    \/ HAL_ADC_ErrorCallback
    \/ startConversion_DMA_enter
    \/ startConversion_DMA_hal
    \/ startConversion_DMA_finish
    \/ waitLoop_isConversionComplete
    \/ InMain(analogSensor_getChannelValue)
    \/ InMain(analogSensor_resetDMAState)
    \/ InMain(analogSensor_resetDMAStats)

SpecStartSteps ==
    Init /\ [][NextStartSteps]_vars

\* A completion or error notification of ADC1 is delivered.
NotifyADC1 ==
    /\ HAL_ADC_ConvCpltCallback \/ HAL_ADC_ErrorCallback
    /\ arg' = 1

\* The hardware finishes the scan in flight and notifies; the wait loop keeps
\* turning.
SpecWaitLoop ==
    /\ SpecStartSteps
    /\ WF_vars(DMA_Transfer)
    /\ WF_vars(NotifyADC1)
    /\ WF_vars(waitLoop_isConversionComplete)

(***************************************************************************)
(* The increment dma_error_count++ of a failed start as the load and the   *)
(* store the compiler emits for a volatile counter.  The callbacks run     *)
(* between the two; the increment of the error callback itself runs in     *)
(* interrupt context and is not preempted.                                 *)
(***************************************************************************)
\* Lines 168-177 when the HAL call succeeded.
startConversion_DMA_accepted ==
    /\ fg_status = HAL_OK
    /\ startConversion_DMA_finish

\* Lines 168-171 when the HAL call failed: the state is set to ERROR and
\* dma_error_count is loaded.
startConversion_DMA_load ==
    /\ pc = "start_test"
    /\ fg_status # HAL_OK
    /\ adc_dma_state' = StartStateAfter(fg_status, adc_dma_state)
    /\ fg_count' = dma_error_count
    /\ pc' = "start_count"
    /\ ReportSoft("start:load", 0, NO_STATUS, 0)
    /\ UNCHANGED <<dma_adc_buffer, dma_conversion_count, dma_error_count,
                   hardware, dest, history, blocking, fg_i, fg_n, fg_status>>

\* Line 171: the counter after the store of the incremented value that was
\* loaded.
StoreCount(loaded) ==
    Inc32(loaded)

\* Lines 171-172: the incremented value is stored and the call returns the
\* status of the HAL call.
startConversion_DMA_count ==
    /\ pc = "start_count"
    /\ StoreCount(fg_count) <= MaxCount
    /\ dma_error_count' = StoreCount(fg_count)
    /\ ReportSoft("startConversion_DMA", 0, fg_status, 0)
    /\ pc' = "main"
    /\ fg_status' = NO_STATUS
    /\ fg_count' = 0
    /\ UNCHANGED <<adc_dma_state, dma_adc_buffer, dma_conversion_count,
                   hardware, dest, history, blocking, fg_i, fg_n>>

NextCounterSteps ==
    \/ DMA_Transfer
    \/ HAL_ADC_ConvCpltCallback
    \/ HAL_ADC_ErrorCallback
    \/ startConversion_DMA_enter
    \/ startConversion_DMA_hal
    \/ startConversion_DMA_accepted
    \/ startConversion_DMA_load
    \/ startConversion_DMA_count
    \/ waitLoop_isConversionComplete
    \/ InMain(analogSensor_resetDMAState)
    \/ InMain(analogSensor_getDMAStats)
    \/ InMain(analogSensor_resetDMAStats)

SpecCounterSteps ==
    Init /\ [][NextCounterSteps]_vars

(***************************************************************************)
(* Blocking engine: Core/Src/adc_conversions.c.                            *)
(*                                                                         *)
(* analogSensor_operation drives the converter synchronously; the HAL      *)
(* answers each of its calls with a status.  One call is one step; the     *)
(* sweep analogSensor_operation_all_channels is one step per iteration of  *)
(* its loop, the foreground being inside the sweep meanwhile.              *)
(***************************************************************************)
\* Mutant: a failure is counted, its status and channel are not stored.
RecordError_CountOnly(errors, status, snsrID) ==
    [errors EXCEPT !.total_errors = Inc32(errors.total_errors)]

\* adc_errors after one failure has been recorded.
RecordError(errors, status, snsrID) ==
    [total_errors |-> Inc32(errors.total_errors),
     last_error_status |-> status,
     last_failed_channel |-> snsrID]

\* What a call leaves: the slots, the error record, the HAL calls it made,
\* the status that decided it (NO_STATUS: no HAL call) and the value read.
Outcome(raw, errors, calls, status, value) ==
    [raw |-> raw, errors |-> errors, calls |-> calls, status |-> status,
     value |-> value]

\* Mutant: an id out of range leaves the invalid-channel marker in the last
\* slot.
RejectInvalid_MarksSlot(snsrID, raw, errors) ==
    Outcome([raw EXCEPT ![ADC_CONVERSIONS_CHANNEL_COUNT - 1] =
                          ADC_ERROR_INVALID_CHANNEL],
            RecordError(errors, HAL_ERROR, snsrID), <<>>, NO_STATUS, 0)

\* Mutant: an id out of range is dropped without a record.
RejectInvalid_Silent(snsrID, raw, errors) ==
    Outcome(raw, errors, <<>>, NO_STATUS, 0)

\* Lines 70-75: snsrID is out of range.
RejectInvalid(snsrID, raw, errors) ==
    Outcome(raw, RecordError(errors, HAL_ERROR, snsrID), <<>>, NO_STATUS, 0)

\* Mutant: a failed configuration is recorded but leaves the slot.
ConfigFailed_NoMarker(snsrID, status, raw, errors) ==
    Outcome(raw, RecordError(errors, status, snsrID),
            <<"HAL_ADC_ConfigChannel">>, status, 0)

\* Lines 78-84: HAL_ADC_ConfigChannel answered status, not HAL_OK.
ConfigFailed(snsrID, status, raw, errors) ==
    Outcome([raw EXCEPT ![snsrID] = ADC_ERROR_CONFIG],
            RecordError(errors, status, snsrID),
            <<"HAL_ADC_ConfigChannel">>, status, 0)

\* Lines 87-93: HAL_ADC_Start answered status, not HAL_OK.
StartFailed(snsrID, status, raw, errors) ==
    Outcome([raw EXCEPT ![snsrID] = ADC_ERROR_START],
            RecordError(errors, status, snsrID),
            <<"HAL_ADC_ConfigChannel", "HAL_ADC_Start">>, status, 0)

\* Mutant: a failed poll returns without stopping the converter.
PollFailed_NoStop(snsrID, status, raw, errors) ==
    Outcome([raw EXCEPT ![snsrID] = ADC_ERROR_TIMEOUT],
            RecordError(errors, status, snsrID),
            <<"HAL_ADC_ConfigChannel", "HAL_ADC_Start",
              "HAL_ADC_PollForConversion">>, status, 0)

\* Mutant: a failed poll leaves the marker of a failed start.
PollFailed_StartMarker(snsrID, status, raw, errors) ==
    Outcome([raw EXCEPT ![snsrID] = ADC_ERROR_START],
            RecordError(errors, status, snsrID),
            <<"HAL_ADC_ConfigChannel", "HAL_ADC_Start",
              "HAL_ADC_PollForConversion", "HAL_ADC_Stop">>, status, 0)

\* Lines 96-103: HAL_ADC_PollForConversion answered status, not HAL_OK.
PollFailed(snsrID, status, raw, errors) ==
    Outcome([raw EXCEPT ![snsrID] = ADC_ERROR_TIMEOUT],
            RecordError(errors, status, snsrID),
            <<"HAL_ADC_ConfigChannel", "HAL_ADC_Start",
              "HAL_ADC_PollForConversion", "HAL_ADC_Stop">>, status, 0)

\* Mutant: the converted value is stored through a uint8_t.
Converted_Truncated(snsrID, value, raw, errors) ==
    Outcome([raw EXCEPT ![snsrID] = value % (UINT8_MAX + 1)], errors,
            <<"HAL_ADC_ConfigChannel", "HAL_ADC_Start",
              "HAL_ADC_PollForConversion", "HAL_ADC_GetValue",
              "HAL_ADC_Stop">>, HAL_OK, value)

\* Lines 105-106: the conversion is over, HAL_ADC_GetValue returns value.
Converted(snsrID, value, raw, errors) ==
    Outcome([raw EXCEPT ![snsrID] = value], errors,
            <<"HAL_ADC_ConfigChannel", "HAL_ADC_Start",
              "HAL_ADC_PollForConversion", "HAL_ADC_GetValue",
              "HAL_ADC_Stop">>, HAL_OK, value)

\* analogSensor_operation(snsrID), the HAL answering cfg, st and poll to the
\* three calls it checks and value to HAL_ADC_GetValue.
Operation(snsrID, cfg, st, poll, value, raw, errors) ==
    IF snsrID >= ADC_CONVERSIONS_CHANNEL_COUNT
    THEN RejectInvalid(snsrID, raw, errors)
    ELSE IF cfg # HAL_OK
         THEN ConfigFailed(snsrID, cfg, raw, errors)
         ELSE IF st # HAL_OK
              THEN StartFailed(snsrID, st, raw, errors)
              ELSE IF poll # HAL_OK
                   THEN PollFailed(snsrID, poll, raw, errors)
                   ELSE Converted(snsrID, value, raw, errors)

\* The answers of the HAL during one call: a call that is not reached
\* (an earlier one failed) has no answer.
HalAnswers ==
    {a \in [cfg : HAL_StatusTypeDef,
            st : HAL_StatusTypeDef \cup {NO_STATUS},
            poll : HAL_StatusTypeDef \cup {NO_STATUS}] :
       /\ (a.st = NO_STATUS) <=> (a.cfg # HAL_OK)
       /\ (a.poll = NO_STATUS) <=> (a.st # HAL_OK)}

\* One call of analogSensor_operation(snsrID), made by the application
\* (pc = "main") or by the sweep.
CallOperation(snsrID) ==
    \E a \in HalAnswers :
        LET out == Operation(snsrID, a.cfg, a.st, a.poll,
                             ScanValue(hw_level, snsrID), raw_LISXXXALH,
                             adc_errors)
            failed == out.status \in HalFailure
        IN  /\ out.errors.total_errors <= MaxCount
            /\ failed => hw_faults < MaxFaults
            /\ hw_faults' = IF failed THEN hw_faults + 1 ELSE hw_faults
            /\ hw_level' = hw_level
            /\ raw_LISXXXALH' = out.raw
            /\ adc_errors' = out.errors
            /\ hal_calls' = out.calls
            /\ op_calls' = IF pc = "main" THEN op_calls
                           ELSE Append(op_calls,
                                       [snsrID |-> snsrID,
                                        status |-> out.status,
                                        value |-> out.value])
            /\ hw_call' = IF out.calls = <<>> THEN "NONE"
                          ELSE out.calls[Len(out.calls)]
            /\ hw_status' = out.status

analogSensor_operation(snsrID) ==
    /\ pc = "main"
    /\ CallOperation(snsrID)
    /\ op' = "operation"
    /\ arg' = snsrID
    /\ ret_status' = NO_STATUS
    /\ ret_value' = 0
    /\ UNCHANGED <<engine, hardware, dest, history, entry_errors,
                   foreground>>

\* Mutant: the count is not clamped.
ClampChannels_None(total_channels) ==
    total_channels

\* Lines 110-112: total_channels after the clamp.
ClampChannels(total_channels) ==
    IF total_channels > ADC_CONVERSIONS_CHANNEL_COUNT
    THEN ADC_CONVERSIONS_CHANNEL_COUNT
    ELSE total_channels

\* analogSensor_operation_all_channels(total_channels) is entered.
analogSensor_operation_all_channels(total_channels) ==
    /\ pc = "main"
    /\ pc' = "all_channels"
    /\ fg_n' = ClampChannels(total_channels)
    /\ fg_i' = 0
    /\ op_calls' = <<>>
    /\ entry_errors' = adc_errors
    /\ ReportSoft("all_channels:enter", total_channels, NO_STATUS, 0)
    /\ UNCHANGED <<engine, hardware, dest, history, raw_LISXXXALH, adc_errors,
                   hw_faults, hw_level, hal_calls, fg_status,
                   fg_count>>

\* Lines 113-115: one iteration of the loop.
operation_all_channels_loop ==
    /\ pc = "all_channels"
    /\ fg_i < fg_n
    /\ CallOperation(fg_i)
    /\ fg_i' = fg_i + 1
    /\ op' = "all_channels:operation"
    /\ UNCHANGED <<engine, hardware, dest, history, entry_errors,
                   arg, ret_status, ret_value, pc, fg_n, fg_status,
                   fg_count>>

\* Line 116: the loop is over, the sweep returns.
operation_all_channels_return ==
    /\ pc = "all_channels"
    /\ fg_i >= fg_n
    /\ pc' = "main"
    /\ fg_i' = 0
    /\ fg_n' = 0
    /\ op_calls' = <<>>
    /\ entry_errors' = NoErrors
    /\ op' = "operation_all_channels"
    /\ UNCHANGED <<engine, hardware, dest, history, raw_LISXXXALH, adc_errors,
                   hw_faults, hw_level, hal_calls, arg, ret_status,
                   ret_value, hw_call, hw_status, fg_status,
                   fg_count>>

analogSensor_getErrorCount ==
    /\ pc = "main"
    /\ ReportSoft("getErrorCount", 0, NO_STATUS, adc_errors.total_errors)
    /\ UNCHANGED <<engine, hardware, dest, history, blocking, foreground>>

\* isNull: error_info == NULL.  The copy made for the caller is reported
\* through ret_value (total_errors) and arg (last_failed_channel).
analogSensor_getErrors ==
    /\ pc = "main"
    /\ \E isNull \in BOOLEAN :
         IF isNull
         THEN ReportSoft("getErrors", 0, HAL_ERROR, 0)
         ELSE ReportSoft("getErrors", adc_errors.last_failed_channel, HAL_OK,
                         adc_errors.total_errors)
    /\ UNCHANGED <<engine, hardware, dest, history, blocking, foreground>>

\* Mutant: the reset forgets the last failed channel.
ResetErrors_KeepsChannel(errors) ==
    [total_errors |-> 0, last_error_status |-> HAL_OK,
     last_failed_channel |-> errors.last_failed_channel]

\* Mutant: the reset zeroes the counter only.
ResetErrors_CountOnly(errors) ==
    [errors EXCEPT !.total_errors = 0]

\* adc_errors after analogSensor_resetErrors.
ResetErrors(errors) ==
    [total_errors |-> 0, last_error_status |-> HAL_OK,
     last_failed_channel |-> NO_FAILED_CHANNEL]

analogSensor_resetErrors ==
    /\ pc = "main"
    /\ adc_errors' = ResetErrors(adc_errors)
    /\ ReportSoft("resetErrors", 0, NO_STATUS, 0)
    /\ UNCHANGED <<engine, hardware, dest, history, raw_LISXXXALH,
                   op_calls, entry_errors, hw_faults, hw_level, hal_calls,
                   foreground>>

NextBlocking ==
    \/ \E snsrID \in ChannelIds : analogSensor_operation(snsrID)
    \/ \E total_channels \in ChannelCounts :
         analogSensor_operation_all_channels(total_channels)
    \/ operation_all_channels_loop
    \/ operation_all_channels_return
    \/ analogSensor_getErrorCount
    \/ analogSensor_getErrors
    \/ analogSensor_resetErrors

SpecBlocking ==
    InitBlocking /\ [][NextBlocking]_vars

(***************************************************************************)
(* Both engines in one program.  The application uses the asynchronous     *)
(* engine and, of the blocking engine, the calls that leave the converter  *)
(* alone: the error record's readers and reset, and analogSensor_operation *)
(* with a channel id that is out of range.                                 *)
(***************************************************************************)
\* Channel ids past the last channel.
InvalidIds ==
    {ADC_CONVERSIONS_CHANNEL_COUNT, UINT8_MAX}

NextSystem ==
    \/ Next
    \/ \E snsrID \in InvalidIds : analogSensor_operation(snsrID)
    \/ analogSensor_getErrorCount
    \/ analogSensor_getErrors
    \/ analogSensor_resetErrors

SpecSystem ==
    Init /\ [][NextSystem]_vars

(***************************************************************************)
(* Properties                                                              *)
(***************************************************************************)
StartCall ==
    op' = "startConversion_DMA"

Accepted ==
    op = "startConversion_DMA" /\ ret_status = HAL_OK

\* A completion or error callback of ADC1 has just run.
Notified ==
    op \in {"ConvCpltCallback", "ErrorCallback"} /\ arg = 1

ErrorCodes ==
    {ADC_DMA_ERROR_INVALID_CHANNEL, ADC_DMA_ERROR_NOT_COMPLETE,
     ADC_DMA_ERROR_DMA_FAILED}

\* C1: a start call made while the state is CONVERTING returns HAL_BUSY,
\* issues no hardware call and leaves the state, the buffer and both
\* counters (and so the statistics left by the previous start) as they were.
C1_BusyWithoutSideEffect ==
    [][(StartCall /\ adc_dma_state = ADC_DMA_STATE_CONVERTING)
         => /\ ret_status' = HAL_BUSY
            /\ hw_call' = "NONE"
            /\ adc_dma_state' = ADC_DMA_STATE_CONVERTING
            /\ UNCHANGED <<dma_adc_buffer, dma_conversion_count,
                           dma_error_count, hardware>>]_vars

\* C1 witness: the second of two consecutive starts was refused; the
\* statistics are those the first, accepted start left.
C1_Witness ==
    /\ op = "startConversion_DMA"
    /\ ret_status = HAL_BUSY
    /\ hw_call = "NONE"
    /\ adc_dma_state = ADC_DMA_STATE_CONVERTING
    /\ dma_conversion_count = 1
    /\ dma_error_count = 0

C3_AtMostOneInFlight ==
    hw_inflight <= 1

C5_AcceptedReachesCompleteOrError ==
    [](Accepted =>
         (<>Notified =>
            <>(adc_dma_state \in {ADC_DMA_STATE_COMPLETE, ADC_DMA_STATE_ERROR})))

\* C5 witness: the completion notification of the one accepted start has
\* been delivered and the state is COMPLETE.
C5_Witness ==
    /\ op = "ConvCpltCallback"
    /\ arg = 1
    /\ adc_dma_state = ADC_DMA_STATE_COMPLETE
    /\ dma_conversion_count = 1
    /\ hw_inflight = 0
    /\ ~await_notify

\* C6: a start call made in a state other than CONVERTING whose hardware
\* call fails ends in ERROR, adds exactly 1 to the error counter, leaves
\* the start counter and returns the hardware's status.
C6_FailedStart ==
    [][(StartCall /\ adc_dma_state # ADC_DMA_STATE_CONVERTING
                  /\ hw_status' \in HalFailure)
         => /\ hw_call' = "HAL_ADC_Start_DMA"
            /\ adc_dma_state' = ADC_DMA_STATE_ERROR
            /\ dma_error_count' = dma_error_count + 1
            /\ dma_conversion_count' = dma_conversion_count
            /\ ret_status' = hw_status']_vars

\* C6 witness: a start failed with the hardware answering HAL_TIMEOUT.
C6_Witness ==
    /\ op = "startConversion_DMA"
    /\ hw_call = "HAL_ADC_Start_DMA"
    /\ hw_status = HAL_TIMEOUT
    /\ ret_status = HAL_TIMEOUT
    /\ adc_dma_state = ADC_DMA_STATE_ERROR
    /\ dma_error_count = 1

C8_ChannelValuePrecedence ==
    [][(op' = "getChannelValue")
         => /\ IF arg' >= 6
               THEN ret_value' = 65535
               ELSE IF adc_dma_state \in {ADC_DMA_STATE_IDLE,
                                          ADC_DMA_STATE_CONVERTING}
                    THEN ret_value' = 65534
                    ELSE IF adc_dma_state = ADC_DMA_STATE_ERROR
                         THEN ret_value' = 65533
                         ELSE /\ adc_dma_state = ADC_DMA_STATE_COMPLETE
                              /\ ret_value' = dma_adc_buffer[arg']
            /\ UNCHANGED <<engine, hardware>>]_vars

\* C8 witness: after an error notification a read of channel 5 returned
\* DmaFailed, with the error counter at 1.
C8_Witness ==
    /\ op = "getChannelValue"
    /\ arg = 5
    /\ ret_value = ADC_DMA_ERROR_DMA_FAILED
    /\ adc_dma_state = ADC_DMA_STATE_ERROR
    /\ dma_error_count = 1
    /\ dma_conversion_count = 1

\* C9: getAllChannelValues returns HAL_ERROR and writes nothing for a NULL
\* destination; returns HAL_BUSY and writes nothing when the state is not
\* COMPLETE; otherwise copies the 6 buffered values and returns HAL_OK.
\* The state, the buffer and the counters are unchanged in all three cases.
C9_AllChannelValues ==
    [][(op' = "getAllChannelValues")
         => /\ IF arg' = 0
               THEN ret_status' = HAL_ERROR /\ dest' = dest
               ELSE IF adc_dma_state # ADC_DMA_STATE_COMPLETE
                    THEN ret_status' = HAL_BUSY /\ dest' = dest
                    ELSE /\ ret_status' = HAL_OK
                         /\ \A i \in 0 .. 5 : dest'[i] = dma_adc_buffer[i]
            /\ UNCHANGED <<engine, hardware>>]_vars

\* C9 witness: a copy succeeded and the caller's array holds a scan.
C9_Witness ==
    /\ op = "getAllChannelValues"
    /\ ret_status = HAL_OK
    /\ adc_dma_state = ADC_DMA_STATE_COMPLETE
    /\ dest = dma_adc_buffer
    /\ dest # ZeroBuffer

\* C10 as claimed: a read that returns data returns the samples the buffer
\* held at the most recent completion notification, and while the state
\* stays COMPLETE the buffer is not written.
C10_ReadsMatchLastCompletion ==
    [][/\ (op' = "getChannelValue" /\ ret_value' \notin ErrorCodes)
            => ret_value' = cplt_buffer[arg']
       /\ (op' = "getAllChannelValues" /\ ret_status' = HAL_OK)
            => dest' = cplt_buffer
       /\ (adc_dma_state = ADC_DMA_STATE_COMPLETE
           /\ adc_dma_state' = ADC_DMA_STATE_COMPLETE)
            => dma_adc_buffer' = dma_adc_buffer]_vars

\* A completion or error callback of ADC1 is running.
NotificationStep ==
    op' \in {"ConvCpltCallback", "ErrorCallback"} /\ arg' = 1

C12_ResetFrame ==
    [][(op' = "resetDMAState")
         => /\ adc_dma_state \in ADC_DMA_StateTypeDef
            /\ adc_dma_state' = ADC_DMA_STATE_IDLE
            /\ hw_call' = "NONE"
            /\ UNCHANGED <<dma_adc_buffer, dma_conversion_count,
                           dma_error_count, hardware>>]_vars

\* C12 witness: a reset made while an accepted start was still waiting for
\* its notification (state CONVERTING), with a full buffer and both
\* counters at 1.
C12_Witness ==
    /\ op = "resetDMAState"
    /\ adc_dma_state = ADC_DMA_STATE_IDLE
    /\ await_notify
    /\ hw_inflight = 1
    /\ dma_adc_buffer # ZeroBuffer
    /\ dma_conversion_count = 1
    /\ dma_error_count = 1

\* A step that is one call of analogSensor_operation, made by the
\* application or by the sweep, and the channel id it is given.
OperationStep ==
    op' \in {"operation", "all_channels:operation"}

OperatedChannel ==
    IF op' = "operation" THEN arg' ELSE fg_i

\* The HAL calls analogSensor_operation has made when the configuration,
\* the start or the poll fails.
CallsToConfig ==
    <<"HAL_ADC_ConfigChannel">>

CallsToStart ==
    <<"HAL_ADC_ConfigChannel", "HAL_ADC_Start">>

CallsToPoll ==
    <<"HAL_ADC_ConfigChannel", "HAL_ADC_Start", "HAL_ADC_PollForConversion",
      "HAL_ADC_Stop">>

C14_FailureMarkers ==
    [][(OperationStep /\ OperatedChannel < 6 /\ hw_status' \in HalFailure)
         => LET ch == OperatedChannel
            IN  /\ hal_calls' \in {CallsToConfig, CallsToStart, CallsToPoll}
                /\ hal_calls' = CallsToConfig
                     => raw_LISXXXALH'[ch] = 65534
                /\ hal_calls' = CallsToStart
                     => raw_LISXXXALH'[ch] = 65533
                /\ hal_calls' = CallsToPoll
                     => raw_LISXXXALH'[ch] = 65532
                /\ \A j \in 0 .. 5 :
                     j # ch => raw_LISXXXALH'[j] = raw_LISXXXALH[j]
                /\ adc_errors'.total_errors
                     = adc_errors.total_errors + 1]_vars

\* C14 witness: in a sweep the poll of channel 3 timed out after channels
\* 0 to 2 were converted, with one failure recorded before the sweep.
C14_Witness ==
    /\ op = "all_channels:operation"
    /\ fg_i = 4
    /\ hal_calls = CallsToPoll
    /\ hw_status = HAL_TIMEOUT
    /\ raw_LISXXXALH[3] = ADC_ERROR_TIMEOUT
    /\ raw_LISXXXALH[2] = ScanValue(hw_level, 2)
    /\ adc_errors = [total_errors |-> 2, last_error_status |-> HAL_TIMEOUT,
                     last_failed_channel |-> 3]

\* min(count, 6).
MinCount(count) ==
    IF count < 6 THEN count ELSE 6

\* C15: analogSensor_operation_all_channels(count) calls
\* analogSensor_operation exactly min(count, 6) times, for the indices
\* 0, 1, ... in increasing order, whatever the calls' outcomes; each call
\* writes at most its own slot, so slots from min(count, 6) on are not
\* written.
C15_SweepCalls ==
    [][/\ (op' = "all_channels:enter")
            => /\ op_calls' = <<>>
               /\ raw_LISXXXALH' = raw_LISXXXALH
       /\ (op' = "all_channels:operation")
            => /\ Len(op_calls') = Len(op_calls) + 1
               /\ op_calls'[Len(op_calls')].snsrID = Len(op_calls)
               /\ Len(op_calls) < MinCount(arg)
               /\ \A j \in 0 .. 5 :
                    j # Len(op_calls)
                      => raw_LISXXXALH'[j] = raw_LISXXXALH[j]
       /\ (op' = "operation_all_channels")
            => /\ Len(op_calls) = MinCount(arg)
               /\ \A k \in 1 .. Len(op_calls) : op_calls[k].snsrID = k - 1
               /\ raw_LISXXXALH' = raw_LISXXXALH]_vars

\* C15 witness: a sweep entered with count 255 has made its 6 calls, the
\* second of which failed, and is about to return.
C15_Witness ==
    /\ pc = "all_channels"
    /\ arg = 255
    /\ fg_i = fg_n
    /\ Len(op_calls) = 6
    /\ op_calls[2].status \in HalFailure
    /\ op_calls[6].status = HAL_OK

\* C16: when every hardware call of analogSensor_operation_all_channels(6)
\* succeeds, each of the 6 slots holds the value the hardware returned for
\* its channel, a value in 0 .. 4095, and the error record is the one the
\* sweep was entered with.
C16_SweepAllSucceed ==
    [][(op' = "operation_all_channels" /\ arg = 6
        /\ \A k \in 1 .. Len(op_calls) : op_calls[k].status = HAL_OK)
         => /\ Len(op_calls) = 6
            /\ \A i \in 0 .. 5 :
                 /\ raw_LISXXXALH'[i] = ScanValue(hw_level, i)
                 /\ raw_LISXXXALH'[i] = op_calls[i + 1].value
                 /\ raw_LISXXXALH'[i] \in 0 .. ADC_MAX_VALUE
            /\ adc_errors' = entry_errors]_vars

\* C16 witness: all 6 conversions of a sweep with count 6 succeeded; the
\* error record still holds the failure recorded before the sweep.
C16_Witness ==
    /\ pc = "all_channels"
    /\ arg = 6
    /\ fg_i = 6
    /\ \A k \in 1 .. 6 : op_calls[k].status = HAL_OK
    /\ raw_LISXXXALH = [i \in Channels |-> ScanValue(hw_level, i)]
    /\ entry_errors.total_errors = 1
    /\ adc_errors = entry_errors

\* C17: analogSensor_resetErrors leaves total_errors 0, the last status
\* HAL_OK and last_failed_channel 0xFF; analogSensor_resetDMAStats leaves
\* both counters of the asynchronous engine 0; from every state.
C17_Resets ==
    [][/\ (op' = "resetErrors")
            => /\ adc_errors'.total_errors = 0
               /\ adc_errors'.last_error_status = HAL_OK
               /\ adc_errors'.last_failed_channel = 255
       /\ (op' = "resetDMAStats")
            => /\ dma_conversion_count' = 0
               /\ dma_error_count' = 0]_vars

\* C17 witness: the error record was reset after an asynchronous start had
\* failed and another had been accepted, so that both counters stand at 1.
C17_Witness ==
    /\ op = "resetErrors"
    /\ adc_errors = NoErrors
    /\ dma_conversion_count = 1
    /\ dma_error_count = 1
    /\ adc_dma_state = ADC_DMA_STATE_CONVERTING

\* The calls and callbacks of the asynchronous engine, and the calls of the
\* blocking engine.
AsyncOperations ==
    {"startConversion_DMA", "isConversionComplete", "getChannelValue",
     "getAllChannelValues", "resetDMAState", "stopConversion_DMA",
     "getDMAStats", "resetDMAStats", "DMA_Transfer", "ConvCpltCallback",
     "ErrorCallback"}

BlockingOperations ==
    {"operation", "all_channels:enter", "all_channels:operation",
     "operation_all_channels", "getErrorCount", "getErrors", "resetErrors"}

\* C18: getDMAStats and resetDMAStats change neither the state, the buffer
\* nor the blocking error record; resetDMAState, stopConversion_DMA and
\* resetErrors leave both asynchronous counters; no call or callback of the
\* asynchronous engine changes the blocking error record, and no blocking
\* call changes the asynchronous counters.
C18_Independence ==
    [][/\ (op' \in {"getDMAStats", "resetDMAStats"})
            => UNCHANGED <<adc_dma_state, dma_adc_buffer, adc_errors>>
       /\ (op' \in {"resetDMAState", "stopConversion_DMA", "resetErrors"})
            => UNCHANGED <<dma_conversion_count, dma_error_count>>
       /\ (op' \in AsyncOperations)
            => UNCHANGED adc_errors
       /\ (op' \in BlockingOperations)
            => UNCHANGED <<dma_conversion_count, dma_error_count>>]_vars

\* C18 witness: a stop whose abort failed was made with both asynchronous
\* counters at 1 and a failure in the blocking error record.
C18_Witness ==
    /\ op = "stopConversion_DMA"
    /\ ret_status = HAL_ERROR
    /\ dma_conversion_count = 1
    /\ dma_error_count = 1
    /\ adc_errors.total_errors = 1
    /\ adc_errors.last_failed_channel = ADC_CONVERSIONS_CHANNEL_COUNT

C20_CopyFromOneConversion ==
    (op = "getAllChannelValues" /\ ret_status = HAL_OK)
      => dest \in {ScanVector(s) : s \in ScanIds}

\* C21: the counter analogSensor_getDMAStats reports as total_conversions is
\* the number of completion notifications since the last resetDMAStats: it
\* grows by one with each completion notification of ADC1 and is changed by
\* no other step but the statistics reset.
C21_CountsCompletions ==
    [][/\ (op' = "ConvCpltCallback" /\ arg' = 1)
            => dma_conversion_count' = dma_conversion_count + 1
       /\ (op' = "getDMAStats")
            => ret_value' = dma_conversion_count
       /\ (~(op' = "ConvCpltCallback" /\ arg' = 1) /\ op' # "resetDMAStats")
            => dma_conversion_count' = dma_conversion_count]_vars

\* C22: once an accepted start is followed by the documented wait loop, the
\* loop ends: analogSensor_isConversionComplete eventually returns 1,
\* whichever notification the hardware delivers for the start.
C22_WaitLoopTerminates ==
    (pc = "wait") ~> (op = "isConversionComplete" /\ ret_value = 1)

\* C23: the state is CONVERTING when HAL_ADC_Start_DMA is issued; a callback
\* of ADC1 that runs before the start call returns finds the state
\* CONVERTING; a start whose hardware call succeeded does not write the
\* state again, so that when a notification has been delivered before the
\* call returns HAL_OK the state at the return is COMPLETE or ERROR.
C23_ConvertingWhenIssued ==
    [][/\ (op' = "start:HAL_ADC_Start_DMA")
            => adc_dma_state = ADC_DMA_STATE_CONVERTING
       /\ (pc = "start_test" /\ arg' = 1
           /\ op' \in {"ConvCpltCallback", "ErrorCallback"})
            => adc_dma_state = ADC_DMA_STATE_CONVERTING
       /\ (pc = "start_test" /\ op' = "startConversion_DMA"
           /\ ret_status' = HAL_OK)
            => /\ adc_dma_state' = adc_dma_state
               /\ ~await_notify
                    => adc_dma_state' \in {ADC_DMA_STATE_COMPLETE,
                                           ADC_DMA_STATE_ERROR}
               /\ (op = "ConvCpltCallback" /\ arg = 1)
                    => adc_dma_state' = ADC_DMA_STATE_COMPLETE
               /\ (op = "ErrorCallback" /\ arg = 1)
                    => adc_dma_state' = ADC_DMA_STATE_ERROR]_vars

C25_ErrorCallbackAborts ==
    [][/\ (op' = "ErrorCallback" /\ arg' = 1)
            => /\ adc_dma_state' = ADC_DMA_STATE_ERROR
               /\ dma_error_count' = dma_error_count + 1
               /\ hw_call' = "HAL_ADC_Stop_DMA"
               /\ hw_inflight' = 0
       /\ (op' \in {"ConvCpltCallback", "ErrorCallback"} /\ arg' = 1)
            => hw_inflight > 0
       /\ (StartCall /\ adc_dma_state = ADC_DMA_STATE_ERROR)
            => /\ hw_call' = "HAL_ADC_Start_DMA"
               /\ ret_status' = hw_status'
       /\ (StartCall /\ ret_status' = HAL_OK)
            => dma_error_count' = dma_error_count]_vars

\* The calls of the asynchronous engine the application makes.
ForegroundOperations ==
    {"startConversion_DMA", "isConversionComplete", "getChannelValue",
     "getAllChannelValues", "resetDMAState", "stopConversion_DMA",
     "getDMAStats", "resetDMAStats"}

\* C26: no call of the application made in state CONVERTING changes the
\* state or the sample buffer.
C26_ForegroundLeavesConverting ==
    [][(op' \in ForegroundOperations
        /\ adc_dma_state = ADC_DMA_STATE_CONVERTING)
         => UNCHANGED <<adc_dma_state, dma_adc_buffer>>]_vars

\* C26 as amended: a call of the application made in state CONVERTING
\* leaves the sample buffer; the start, the reads and the statistics calls
\* leave the state too, whereas resetDMAState and stopConversion_DMA set it
\* to IDLE; while the state is CONVERTING the buffer is changed by the DMA
\* only.
C26_ForegroundWritesOnResetAndStop ==
    [][/\ (op' \in ForegroundOperations
           /\ adc_dma_state = ADC_DMA_STATE_CONVERTING)
            => /\ dma_adc_buffer' = dma_adc_buffer
               /\ op' \in {"resetDMAState", "stopConversion_DMA"}
                    => adc_dma_state' = ADC_DMA_STATE_IDLE
               /\ op' \notin {"resetDMAState", "stopConversion_DMA"}
                    => adc_dma_state' = ADC_DMA_STATE_CONVERTING
       /\ (adc_dma_state = ADC_DMA_STATE_CONVERTING
           /\ dma_adc_buffer' # dma_adc_buffer)
            => op' = "DMA_Transfer"
       /\ (adc_dma_state = ADC_DMA_STATE_CONVERTING
           /\ adc_dma_state' # ADC_DMA_STATE_CONVERTING)
            => op' \in {"resetDMAState", "stopConversion_DMA",
                        "ConvCpltCallback", "ErrorCallback"}]_vars

\* C26 witness: a stop whose abort failed was called while the conversion
\* of the only accepted start was running and the DMA had written its
\* scan: the state is IDLE, the buffer holds the scan.
C26_Witness ==
    /\ op = "stopConversion_DMA"
    /\ ret_status = HAL_ERROR
    /\ adc_dma_state = ADC_DMA_STATE_IDLE
    /\ await_notify
    /\ hw_inflight = 1
    /\ hw_pos = ADC_DMA_CHANNEL_COUNT
    /\ dma_adc_buffer = ScanVector(2)
    /\ dma_conversion_count = 1
    /\ dma_error_count = 0

\* C27: a start called in ERROR or COMPLETE is not refused: the hardware
\* start is issued and, when it succeeds, the start returns HAL_OK with the
\* state CONVERTING; the completion notification then leaves COMPLETE; and
\* the state never stays CONVERTING, the only state in which starts are
\* refused, for ever.
C27_NotStuck ==
    /\ [][/\ (StartCall /\ adc_dma_state \in {ADC_DMA_STATE_ERROR,
                                             ADC_DMA_STATE_COMPLETE})
               => /\ hw_call' = "HAL_ADC_Start_DMA"
                  /\ ret_status' = hw_status'
                  /\ hw_status' = HAL_OK
                       => adc_dma_state' = ADC_DMA_STATE_CONVERTING
          /\ (StartCall /\ ret_status' = HAL_BUSY /\ hw_call' = "NONE")
               => adc_dma_state = ADC_DMA_STATE_CONVERTING
          /\ (op' = "ConvCpltCallback" /\ arg' = 1)
               => adc_dma_state' = ADC_DMA_STATE_COMPLETE]_vars
    /\ (adc_dma_state = ADC_DMA_STATE_CONVERTING)
         ~> (adc_dma_state # ADC_DMA_STATE_CONVERTING)

\* C27 witness: after a conversion that ended in the error callback a second
\* start was accepted and its conversion completed.
C27_Witness ==
    /\ op = "ConvCpltCallback"
    /\ arg = 1
    /\ adc_dma_state = ADC_DMA_STATE_COMPLETE
    /\ dma_conversion_count = 2
    /\ dma_error_count = 1
    /\ hw_inflight = 0
    /\ cplt_buffer = ScanVector(1)

\* C28: a call analogSensor_operation(c) that fails adds 1 to total_errors
\* and stores c in last_failed_channel and, in last_error_status, the status
\* of the hardware call that failed, or HAL_ERROR when c is out of range; a
\* call that succeeds leaves the three fields.
C28_FailureRecorded ==
    [][OperationStep
         => LET c == OperatedChannel
            IN  /\ c >= 6
                     => adc_errors' = [total_errors |->
                                         adc_errors.total_errors + 1,
                                       last_error_status |-> HAL_ERROR,
                                       last_failed_channel |-> c]
                /\ (c < 6 /\ hw_status' \in HalFailure)
                     => adc_errors' = [total_errors |->
                                         adc_errors.total_errors + 1,
                                       last_error_status |-> hw_status',
                                       last_failed_channel |-> c]
                /\ (c < 6 /\ hw_status' = HAL_OK)
                     => adc_errors' = adc_errors
                /\ c < 6 => hw_status' \in HAL_StatusTypeDef]_vars

\* C28 witness: the start of channel 5 was answered HAL_BUSY after an id out
\* of range had been recorded: the record holds the later failure.
C28_Witness ==
    /\ op = "operation"
    /\ arg = 5
    /\ hal_calls = CallsToStart
    /\ hw_status = HAL_BUSY
    /\ adc_errors = [total_errors |-> 2, last_error_status |-> HAL_BUSY,
                     last_failed_channel |-> 5]

\* The markers analogSensor_operation stores in a slot.
SlotMarkers ==
    {ADC_ERROR_CONFIG, ADC_ERROR_START, ADC_ERROR_TIMEOUT}

\* C29: the markers lie above the readings; every slot holds a reading in
\* 0 .. 4095 or one of the markers 0xFFFC .. 0xFFFE; a call
\* analogSensor_operation(ch) leaves a marker in slot ch if it failed and a
\* reading if it succeeded, and no other step changes slot ch, so that the
\* slot holds a marker exactly when the most recent call for ch failed.
C29_MarkerIffLastCallFailed ==
    /\ [](/\ \A m \in SlotMarkers : m > ADC_MAX_VALUE
          /\ SlotMarkers = 65532 .. 65534
          /\ \A i \in Channels :
               raw_LISXXXALH[i] \in (0 .. ADC_MAX_VALUE) \cup SlotMarkers)
    /\ [][/\ (OperationStep /\ OperatedChannel < 6)
               => LET ch == OperatedChannel
                  IN  /\ hw_status' \in HalFailure
                           <=> raw_LISXXXALH'[ch] \in SlotMarkers
                      /\ hw_status' = HAL_OK
                           <=> raw_LISXXXALH'[ch] \in 0 .. ADC_MAX_VALUE
          /\ \A j \in Channels :
               raw_LISXXXALH'[j] # raw_LISXXXALH[j]
                 => (OperationStep /\ OperatedChannel = j)]_vars

\* C29 witness: the one failure the hardware answered left a marker that a
\* later, successful conversion of the same channel has replaced: no slot
\* holds a marker.
C29_Witness ==
    /\ op \in {"operation", "all_channels:operation"}
    /\ hw_status = HAL_OK
    /\ hw_faults = 1
    /\ adc_errors.last_failed_channel = 0
    /\ raw_LISXXXALH[0] = ScanValue(hw_level, 0)
    /\ \A i \in Channels : raw_LISXXXALH[i] <= ADC_MAX_VALUE

\* The HAL calls of a call in which every hardware step succeeded.
CallsToStop ==
    <<"HAL_ADC_ConfigChannel", "HAL_ADC_Start", "HAL_ADC_PollForConversion",
      "HAL_ADC_GetValue", "HAL_ADC_Stop">>

\* The number of calls of the HAL function name in the sequence calls.
CountCalls(calls, name) ==
    Cardinality({k \in 1 .. Len(calls) : calls[k] = name})

\* C30: analogSensor_operation calls the HAL in the order configure, start,
\* poll, read value, stop, and returns at the first call that fails: after
\* a failed configuration nothing else is called, after a failed start no
\* poll and no stop; whenever the start succeeded (the poll was reached)
\* exactly one stop is called, as the last call, after a failed poll and
\* after a conversion alike; an id out of range calls nothing.
C30_CallOrder ==
    [][OperationStep
         => LET calls == hal_calls'
            IN  /\ OperatedChannel >= 6 => calls = <<>>
                /\ OperatedChannel < 6
                     => /\ \E n \in 1 .. Len(CallsToStop) :
                             \/ calls = SubSeq(CallsToStop, 1, n)
                             \/ calls = SubSeq(CallsToStop, 1, n)
                                          \o <<"HAL_ADC_Stop">>
                        /\ hw_status' = HAL_OK <=> calls = CallsToStop
                        /\ hw_status' \in HalFailure
                             <=> calls \in {CallsToConfig, CallsToStart,
                                            CallsToPoll}
                /\ CountCalls(calls, "HAL_ADC_PollForConversion") = 1
                     <=> CountCalls(calls, "HAL_ADC_Stop") = 1
                /\ CountCalls(calls, "HAL_ADC_Stop") <= 1
                /\ CountCalls(calls, "HAL_ADC_Stop") = 1
                     => calls[Len(calls)] = "HAL_ADC_Stop"
                /\ hw_call' = IF calls = <<>> THEN "NONE"
                              ELSE calls[Len(calls)]]_vars

\* C30 witness: the poll of channel 0 timed out in a direct call: the
\* converter was configured, started, polled and stopped.
C30_Witness ==
    /\ op = "operation"
    /\ arg = 0
    /\ hw_status = HAL_TIMEOUT
    /\ hal_calls = CallsToPoll
    /\ hw_call = "HAL_ADC_Stop"
    /\ raw_LISXXXALH[0] = ADC_ERROR_TIMEOUT

C33_IdleUntilNextStart ==
    [][(adc_dma_state = ADC_DMA_STATE_IDLE
        /\ adc_dma_state' # ADC_DMA_STATE_IDLE)
         => StartCall]_vars

\* C34: the error counter loses no update: it is the number of failed
\* hardware starts plus the number of error notifications handled since the
\* last resetDMAStats, so the return of a failed start and the error
\* callback of ADC1 each leave it one higher than they found it, and no
\* other step but the statistics reset changes it.
C34_NoLostUpdate ==
    [][/\ (op' = "startConversion_DMA" /\ ret_status' \in HalFailure
           /\ pc = "start_count")
            => dma_error_count' = dma_error_count + 1
       /\ (op' = "ErrorCallback" /\ arg' = 1)
            => dma_error_count' = dma_error_count + 1
       /\ (~(op' = "startConversion_DMA" /\ pc = "start_count")
           /\ ~(op' = "ErrorCallback" /\ arg' = 1)
           /\ op' # "resetDMAStats")
            => dma_error_count' = dma_error_count]_vars

\* C35: the completion and error callbacks act only for ADC1: a callback
\* given the handle of another converter leaves the state, the sample
\* buffer, both counters and the conversions in flight as they are and
\* issues no hardware call, HAL_ADC_Stop_DMA included.
C35_OtherConverterIgnored ==
    [][(op' \in {"ConvCpltCallback", "ErrorCallback"} /\ arg' = 0)
         => /\ UNCHANGED <<adc_dma_state, dma_adc_buffer,
                           dma_conversion_count, dma_error_count,
                           hw_inflight>>
            /\ hw_call' = "NONE"]_vars

\* C35 witness: the error callback has run with the handle of another
\* converter while a conversion of ADC1 was in flight; the state is still
\* CONVERTING, no error is counted and the conversion still runs.
C35_Witness ==
    /\ op = "ErrorCallback"
    /\ arg = 0
    /\ adc_dma_state = ADC_DMA_STATE_CONVERTING
    /\ dma_error_count = 0
    /\ dma_conversion_count = 1
    /\ hw_inflight = 1
    /\ hw_call = "NONE"
====
